---- MODULE Spec2Model ----
(***************************************************************************)
(* Model of the wordle-star core: Dictionary (src/src/dictionary.rs),      *)
(* GuessResult / CharState (src/src/guess.rs), KeyboardView                *)
(* (src/src/keyboard_view.rs) and Game (src/src/game.rs).                  *)
(*                                                                         *)
(* A char is modelled by its code, a small positive integer.  A word is a  *)
(* sequence of chars.  Positions are 1-based here (0-based in the source); *)
(* the order of positions is the same.                                     *)
(***************************************************************************)
EXTENDS Integers, Sequences, FiniteSets, TLC

\* ---------------------------------------------------------------- bounds
NumChars == 2
MaxWordLen == 3
MaxDictSize == 2
MaxGuesses == 2
MaxRecords == 3

Alphabet == 1..NumChars
WordsOfLen(n) == [1..n -> Alphabet]
\* the words the evaluator is applied to (specification SpecEval)
AllWords == UNION {WordsOfLen(n) : n \in 1..MaxWordLen}

\* the word lengths of the dictionaries built in specification Spec, and the
\* words passed to add_word, Game::new and guess_word there: every word of a
\* dictionary length, the empty word, and a word longer than any dictionary
DictLengths == {1, 2}
LongWord == <<1, 1, 1>>
InputWords == UNION {WordsOfLen(n) : n \in {0} \cup DictLengths} \cup {LongWord}

\* ------------------------------------------------- guess.rs: CharState
NotFound == 1
IncorrectPosition == 2
CorrectPosition == 3

CharStates == {NotFound, IncorrectPosition, CorrectPosition}

\* game.rs: GameState
Playing == "Playing"
Win == "Win"
Lose == "Lose"
\* value of the Game fields while no Game has been constructed
NoGame == "NoGame"

\* outcomes of a call
Returned == "returned"
ReturnedNone == "None"
ReturnedSome == "Some"
PanicWordLength == "panic: word length must be positive"
PanicIncorrectLength == "panic: Incorrect word length"
PanicTargetNotInDict == "panic: target word not present in dictionary"
PanicNoMoreGuesses == "panic: no more guesses allowed"
PanicInvalidState == "panic: invalid state, previous state incompatible with new state"

VARIABLES
    phase,                \* "start": nothing built, "dict": a Dictionary exists, "game": a Game owns it,
                          \* "keyboard": a KeyboardView on its own (specification SpecKeyboard)
    wordset,              \* Dictionary.wordset
    word_length,          \* Dictionary.word_length
    target_word,          \* Game.target_word
    target_char_indexes,  \* Game.target_char_indexes
    max_guesses,          \* Game.max_guesses
    keyboard_view,        \* Game.keyboard_view.keymap: function from the recorded chars to CharState
    guess_results,        \* Game.guess_results
    state,                \* Game.state
    guess_result,         \* the local guess_result of the last guess_word call that computed one;
                          \* in SpecKeyboard, the char guesses passed to record_guess so far
    last,                 \* the last call: operation, argument, outcome
    failed                \* history: some guess_word call on the current Game has panicked

vars == <<phase, wordset, word_length, target_word, target_char_indexes, max_guesses,
          keyboard_view, guess_results, state, guess_result, last, failed>>

dictVars == <<wordset, word_length>>
gameVars == <<target_word, target_char_indexes, max_guesses, keyboard_view, guess_results, state,
              failed>>

EmptyMap == [x \in {} |-> 0]

\* word is the call's argument: a word, a char guess for record_guess, and
\* the one-element sequence <<word_length>> for Dictionary::new
Call(op, word, outcome) == [op |-> op, word |-> word, outcome |-> outcome]

\* ------------------------------------------------------------ guess.rs
\* is_correct with any() in place of all()
is_correct_any(gr) == \E i \in DOMAIN gr : gr[i][2] = CorrectPosition

\* GuessResult::is_correct: all entries are CorrectPosition
is_correct(gr) == \A i \in DOMAIN gr : gr[i][2] = CorrectPosition

\* ---------------------------------------------------- keyboard_view.rs
\* cmp::max taken for cmp::min
cmp_max_min(a, b) == IF a <= b THEN a ELSE b

\* the new state overwriting the recorded one
cmp_max_new(a, b) == b

\* the recorded state kept whatever the new one is
cmp_max_first(a, b) == a

cmp_max(a, b) == IF a >= b THEN a ELSE b

\* record_guess without the consistency test
record_guess_lenient(keymap, char_guess) ==
    LET ch == char_guess[1]
        ch_state == char_guess[2]
    IN  IF ch \notin DOMAIN keymap
        THEN [panicked |-> FALSE, keymap |-> (ch :> ch_state) @@ keymap]
        ELSE [panicked |-> FALSE,
              keymap |-> [keymap EXCEPT ![ch] = cmp_max(keymap[ch], ch_state)]]

\* record_guess that also panics when a NotFound follows a found state
record_guess_strict(keymap, char_guess) ==
    LET ch == char_guess[1]
        ch_state == char_guess[2]
    IN  IF ch \notin DOMAIN keymap
        THEN [panicked |-> FALSE, keymap |-> (ch :> ch_state) @@ keymap]
        ELSE IF (keymap[ch] = NotFound) # (ch_state = NotFound)
             THEN [panicked |-> TRUE, keymap |-> keymap]
             ELSE [panicked |-> FALSE,
                   keymap |-> [keymap EXCEPT ![ch] = cmp_max(keymap[ch], ch_state)]]

\* KeyboardView::record_guess on one CharGuess; panicked = the call panics,
\* and then the keymap is left as it was before the call.
record_guess(keymap, char_guess) ==
    LET ch == char_guess[1]
        ch_state == char_guess[2]
    IN  IF ch \notin DOMAIN keymap
        THEN [panicked |-> FALSE, keymap |-> (ch :> ch_state) @@ keymap]
        ELSE IF keymap[ch] = NotFound /\ keymap[ch] # ch_state
             THEN [panicked |-> TRUE, keymap |-> keymap]
             ELSE [panicked |-> FALSE,
                   keymap |-> [keymap EXCEPT ![ch] = cmp_max(keymap[ch], ch_state)]]

\* KeyboardView::get: 0 stands for None
get(keymap, ch) == IF ch \in DOMAIN keymap THEN keymap[ch] ELSE 0

\* ------------------------------------------------------- dictionary.rs
contains(set, word) == word \in set

\* Dictionary::len
len(set) == Cardinality(set)

\* -------------------------------------------------------------- game.rs
\* a membership test that compares lengths only
is_word_allowed_in_dict_len(set, word) == \E w \in set : Len(w) = Len(word)

is_word_allowed_in_dict(set, word) == contains(set, word)

is_word_allowed(word) == is_word_allowed_in_dict(wordset, word)

\* allow_more_guesses without the test of the state
allow_more_guesses_len(results, st) == Len(results) < max_guesses

\* allow_more_guesses that lets one guess too many through
allow_more_guesses_le(results, st) == Len(results) <= max_guesses /\ st = Playing

\* Game::allow_more_guesses, on a given history and state
allow_more_guesses(results, st) == Len(results) < max_guesses /\ st = Playing

\* Game::compute_char_positions_map
compute_char_positions_map(word) ==
    [ch \in {word[i] : i \in DOMAIN word} |-> {i \in DOMAIN word : word[i] = ch}]

\* the positions of a set in descending order
RECURSIVE sorted_desc(_)
sorted_desc(S) ==
    IF S = {} THEN <<>>
    ELSE LET m == CHOOSE x \in S : \A y \in S : x >= y
         IN  <<m>> \o sorted_desc(S \ {m})

\* the positions of a set in ascending order (collect + sort)
RECURSIVE sorted(_)
sorted(S) ==
    IF S = {} THEN <<>>
    ELSE LET m == CHOOSE x \in S : \A y \in S : x <= y
         IN  <<m>> \o sorted(S \ {m})

\* every guess position of the character taken as an exact match
intersection_all(guess_positions, target_positions) == guess_positions

intersection(guess_positions, target_positions) == guess_positions \cap target_positions

\* a difference that keeps the exact matches
difference_all(guess_positions, target_positions) == guess_positions

difference(guess_positions, target_positions) == guess_positions \ target_positions

\* extra_count that forgets the exact matches
extra_count_all(target_positions, intersection_len) == Cardinality(target_positions)

\* extra_count that never leaves an occurrence to mark IncorrectPosition
extra_count_none(target_positions, intersection_len) == 0

extra_count(target_positions, intersection_len) == Cardinality(target_positions) - intersection_len

cmp_min(a, b) == IF a <= b THEN a ELSE b

\* a loop body that resets the positions of the other characters
process_char_clobber(char_guesses, guess_map, ch) ==
    IF ch \notin DOMAIN guess_map THEN char_guesses
    ELSE LET guess_positions == guess_map[ch]
             target_positions == target_char_indexes[ch]
             inter == intersection(guess_positions, target_positions)
             intersection_len == Cardinality(inter)
             extra == extra_count(target_positions, intersection_len)
             sorted_diff == sorted(difference(guess_positions, target_positions))
             trimmed_length == cmp_min(extra, Len(sorted_diff))
             incorrect == IF extra > 0
                          THEN {sorted_diff[k] : k \in 1..trimmed_length}
                          ELSE {}
         IN  [i \in DOMAIN char_guesses |->
                 IF i \in incorrect THEN <<ch, IncorrectPosition>>
                 ELSE IF i \in inter THEN <<ch, CorrectPosition>>
                 ELSE <<char_guesses[i][1], NotFound>>]

\* body of the loop over target_char_indexes for one character ch
process_char(char_guesses, guess_map, ch) ==
    IF ch \notin DOMAIN guess_map THEN char_guesses
    ELSE LET guess_positions == guess_map[ch]
             target_positions == target_char_indexes[ch]
             inter == intersection(guess_positions, target_positions)
             intersection_len == Cardinality(inter)
             extra == extra_count(target_positions, intersection_len)
             sorted_diff == sorted(difference(guess_positions, target_positions))
             trimmed_length == cmp_min(extra, Len(sorted_diff))
             incorrect == IF extra > 0
                          THEN {sorted_diff[k] : k \in 1..trimmed_length}
                          ELSE {}
         IN  [i \in DOMAIN char_guesses |->
                 IF i \in incorrect THEN <<ch, IncorrectPosition>>
                 ELSE IF i \in inter THEN <<ch, CorrectPosition>>
                 ELSE char_guesses[i]]

RECURSIVE process_chars(_, _, _)
process_chars(char_guesses, guess_map, order) ==
    IF order = <<>> THEN char_guesses
    ELSE process_chars(process_char(char_guesses, guess_map, Head(order)), guess_map, Tail(order))

\* compute_guess_result that starts from the characters of the target
compute_guess_result_target(word, order) ==
    LET char_guesses == [i \in DOMAIN word |-> <<target_word[i], NotFound>>]
        guess_map == compute_char_positions_map(word)
    IN  process_chars(char_guesses, guess_map, order)

\* Game::compute_guess_result; order is the iteration order of the HashMap
\* target_char_indexes, which the source leaves unspecified.
compute_guess_result(word, order) ==
    LET char_guesses == [i \in DOMAIN word |-> <<word[i], NotFound>>]
        guess_map == compute_char_positions_map(word)
    IN  process_chars(char_guesses, guess_map, order)

\* the iteration orders of a HashMap with key set S
Orders(S) == {s \in [1..Cardinality(S) -> S] : \A i, j \in DOMAIN s : i # j => s[i] # s[j]}

\* the loop left after its first iteration
record_all_head(keymap, char_guesses, i) ==
    IF i > Len(char_guesses) THEN [panicked |-> FALSE, keymap |-> keymap]
    ELSE record_guess(keymap, char_guesses[i])

\* the loop of guess_word feeding char_guesses[i..] to the keyboard view;
\* it stops at the first record_guess that panics.
RECURSIVE record_all(_, _, _)
record_all(keymap, char_guesses, i) ==
    IF i > Len(char_guesses) THEN [panicked |-> FALSE, keymap |-> keymap]
    ELSE LET r == record_guess(keymap, char_guesses[i])
         IN  IF r.panicked THEN r ELSE record_all(r.keymap, char_guesses, i + 1)

\* next_state that tests exhaustion before the win
next_state_lose_first(gr, results) ==
    IF ~allow_more_guesses(results, Playing) THEN Lose
    ELSE IF is_correct(gr) THEN Win
    ELSE Playing

\* next_state that loses one attempt early
next_state_early(gr, results) ==
    IF is_correct(gr) THEN Win
    ELSE IF ~allow_more_guesses(Append(results, gr), Playing) THEN Lose
    ELSE Playing

\* the state after an accepted guess has been pushed to results
next_state(gr, results) ==
    IF is_correct(gr) THEN Win
    ELSE IF ~allow_more_guesses(results, Playing) THEN Lose
    ELSE Playing

Init ==
    /\ phase = "start"
    /\ wordset = {}
    /\ word_length = 0
    /\ target_word = <<>>
    /\ target_char_indexes = EmptyMap
    /\ max_guesses = 0
    /\ keyboard_view = EmptyMap
    /\ guess_results = <<>>
    /\ state = NoGame
    /\ guess_result = <<>>
    /\ last = Call("none", <<>>, Returned)
    /\ failed = FALSE

\* Dictionary::new without the test of the word length
DictionaryNewUnchecked(wl) ==
    /\ phase = "start"
    /\ phase' = "dict"
    /\ wordset' = {}
    /\ word_length' = wl
    /\ last' = Call("Dictionary::new", <<wl>>, Returned)
    /\ UNCHANGED <<gameVars, guess_result>>

\* Dictionary::new(wl)
DictionaryNew(wl) ==
    /\ phase = "start"
    /\ IF wl = 0
       THEN /\ last' = Call("Dictionary::new", <<wl>>, PanicWordLength)
            /\ UNCHANGED <<phase, dictVars>>
       ELSE /\ phase' = "dict"
            /\ wordset' = {}
            /\ word_length' = wl
            /\ last' = Call("Dictionary::new", <<wl>>, Returned)
    /\ UNCHANGED <<gameVars, guess_result>>

\* add_word without the length test
AddWordUnchecked(word) ==
    /\ phase = "dict"
    /\ Cardinality(wordset \cup {word}) <= MaxDictSize
    /\ wordset' = wordset \cup {word}
    /\ last' = Call("add_word", word, Returned)
    /\ UNCHANGED <<phase, word_length, gameVars, guess_result>>

\* add_word that replaces the set by the new word
AddWordReplace(word) ==
    /\ phase = "dict"
    /\ IF word_length # Len(word)
       THEN /\ last' = Call("add_word", word, PanicIncorrectLength)
            /\ UNCHANGED wordset
       ELSE /\ wordset' = {word}
            /\ last' = Call("add_word", word, Returned)
    /\ UNCHANGED <<phase, word_length, gameVars, guess_result>>

\* Dictionary::add_word / add_word_str
AddWord(word) ==
    /\ phase = "dict"
    /\ IF word_length # Len(word)
       THEN /\ last' = Call("add_word", word, PanicIncorrectLength)
            /\ UNCHANGED wordset
       ELSE /\ Cardinality(wordset \cup {word}) <= MaxDictSize
            /\ wordset' = wordset \cup {word}
            /\ last' = Call("add_word", word, Returned)
    /\ UNCHANGED <<phase, word_length, gameVars, guess_result>>

\* Game::new(dict, target, mg); the dictionary is moved into the game, and
\* dropped with it when the constructor panics.
GameNew(target, mg) ==
    /\ phase = "dict"
    /\ IF ~is_word_allowed_in_dict(wordset, target)
       THEN /\ phase' = "start"
            /\ wordset' = {}
            /\ word_length' = 0
            /\ last' = Call("Game::new", target, PanicTargetNotInDict)
            /\ UNCHANGED gameVars
       ELSE /\ phase' = "game"
            /\ target_word' = target
            /\ target_char_indexes' = compute_char_positions_map(target)
            /\ keyboard_view' = EmptyMap
            /\ guess_results' = <<>>
            /\ state' = Playing
            /\ max_guesses' = mg
            /\ failed' = FALSE
            /\ last' = Call("Game::new", target, Returned)
            /\ UNCHANGED dictVars
    /\ UNCHANGED guess_result

\* Game::guess_word(word)
GuessWord(word) ==
    /\ phase = "game"
    /\ IF ~allow_more_guesses(guess_results, state)
       THEN /\ last' = Call("guess_word", word, PanicNoMoreGuesses)
            /\ failed' = TRUE
            /\ UNCHANGED <<keyboard_view, guess_results, state, guess_result>>
       ELSE IF ~is_word_allowed(word)
       THEN /\ last' = Call("guess_word", word, ReturnedNone)
            /\ UNCHANGED <<keyboard_view, guess_results, state, guess_result, failed>>
       ELSE \E order \in Orders(DOMAIN target_char_indexes) :
            LET gr == compute_guess_result(word, order)
                rec == record_all(keyboard_view, gr, 1)
            IN  /\ guess_result' = gr
                /\ keyboard_view' = rec.keymap
                /\ IF rec.panicked
                   THEN /\ last' = Call("guess_word", word, PanicInvalidState)
                        /\ failed' = TRUE
                        /\ UNCHANGED <<guess_results, state>>
                   ELSE /\ guess_results' = Append(guess_results, gr)
                        /\ UNCHANGED failed
                        /\ state' = next_state(gr, Append(guess_results, gr))
                        /\ last' = Call("guess_word", word, ReturnedSome)
    /\ UNCHANGED <<phase, dictVars, target_word, target_char_indexes, max_guesses>>

Next ==
    \/ \E wl \in {0} \cup DictLengths : DictionaryNew(wl)
    \/ \E word \in InputWords : AddWord(word)
    \/ \E target \in InputWords, mg \in 0..MaxGuesses : GameNew(target, mg)
    \/ \E word \in InputWords : GuessWord(word)

Spec == Init /\ [][Next]_vars

\* ------------------------------------------------------------------------
\* The evaluator on its own: a freshly constructed Game for any target of
\* AllWords, whose dictionary holds every word of the target's length, and
\* compute_guess_result applied to any word of that dictionary.  The
\* function reads target_char_indexes and its argument only and writes no
\* field, so it is applied once per constructed Game.
InitEval ==
    /\ phase = "game"
    /\ target_word \in AllWords
    /\ word_length = Len(target_word)
    /\ wordset = WordsOfLen(word_length)
    /\ target_char_indexes = compute_char_positions_map(target_word)
    /\ max_guesses \in 0..MaxGuesses
    /\ keyboard_view = EmptyMap
    /\ guess_results = <<>>
    /\ state = Playing
    /\ guess_result = <<>>
    /\ last = Call("Game::new", target_word, Returned)
    /\ failed = FALSE

\* Game::compute_guess_result(word)
ComputeGuessResult(word) ==
    /\ phase = "game"
    /\ last.op = "Game::new"
    /\ is_word_allowed(word)
    /\ \E order \in Orders(DOMAIN target_char_indexes) :
           guess_result' = compute_guess_result(word, order)
    /\ last' = Call("compute_guess_result", word, Returned)
    /\ UNCHANGED <<phase, dictVars, gameVars>>

NextEval == \E word \in AllWords : ComputeGuessResult(word)

SpecEval == InitEval /\ [][NextEval]_vars

TypeOK ==
    /\ phase \in {"start", "dict", "game", "keyboard"}
    /\ wordset \subseteq InputWords
    /\ Cardinality(wordset) <= MaxDictSize
    /\ word_length \in {0} \cup DictLengths
    /\ target_word \in InputWords
    /\ max_guesses \in 0..MaxGuesses
    /\ DOMAIN keyboard_view \subseteq Alphabet
    /\ \A ch \in DOMAIN keyboard_view : keyboard_view[ch] \in {NotFound, IncorrectPosition, CorrectPosition}
    /\ state \in {NoGame, Playing, Win, Lose}
    /\ Len(guess_results) <= MaxGuesses
    /\ failed \in BOOLEAN

\* ------------------------------------------------------------------------
\* The keyboard view on its own: KeyboardView::new(), then record_guess
\* called with any char guesses, at most MaxRecords times.
InitKeyboard ==
    /\ phase = "keyboard"
    /\ wordset = {}
    /\ word_length = 0
    /\ target_word = <<>>
    /\ target_char_indexes = EmptyMap
    /\ max_guesses = 0
    /\ keyboard_view = EmptyMap
    /\ guess_results = <<>>
    /\ state = NoGame
    /\ guess_result = <<>>
    /\ last = Call("KeyboardView::new", <<>>, Returned)
    /\ failed = FALSE

\* KeyboardView::record_guess(&(ch, ch_state))
RecordGuess(ch, ch_state) ==
    /\ phase = "keyboard"
    /\ Len(guess_result) < MaxRecords
    /\ LET r == record_guess(keyboard_view, <<ch, ch_state>>)
       IN  /\ keyboard_view' = r.keymap
           /\ last' = Call("record_guess", <<ch, ch_state>>,
                           IF r.panicked THEN PanicInvalidState ELSE Returned)
    /\ guess_result' = Append(guess_result, <<ch, ch_state>>)
    /\ UNCHANGED <<phase, dictVars, target_word, target_char_indexes, max_guesses,
                   guess_results, state, failed>>

NextKeyboard == \E ch \in Alphabet, ch_state \in CharStates : RecordGuess(ch, ch_state)

SpecKeyboard == InitKeyboard /\ [][NextKeyboard]_vars

\* ------------------------------------------------------------ properties
\* number of occurrences of char c in word w
Count(w, c) == Cardinality({i \in DOMAIN w : w[i] = c})

\* the last call ran compute_guess_result on last.word: the evaluator called
\* on its own, or a guess_word that got past the dictionary test (the result
\* is then in guess_result, whether or not guess_word returned it)
Computed ==
    \/ last.op = "compute_guess_result"
    \/ last.op = "guess_word" /\ last.outcome \in {ReturnedSome, PanicInvalidState}

\* a step taken by a guess_word call that returned Some(guess_result')
AcceptedStep == phase = "game" /\ vars' # vars /\ last'.outcome = ReturnedSome

\* C1: leftmost tie-break.  For every character c of the target, with D the
\* guess positions holding c that are not exact matches and extra the number
\* of occurrences of c in the target that are not exact matches, the
\* positions of D marked IncorrectPosition are exactly the min(extra, |D|)
\* smallest positions of D, and every other position of D is NotFound.
C1_LeftmostTieBreak ==
    Computed =>
        \A c \in {target_word[i] : i \in DOMAIN target_word} :
            LET g == last.word
                D == {i \in DOMAIN g : g[i] = c /\ target_word[i] # c}
                exact == {i \in DOMAIN g : g[i] = c /\ target_word[i] = c}
                extra == Count(target_word, c) - Cardinality(exact)
                k == IF extra <= Cardinality(D) THEN extra ELSE Cardinality(D)
                smallest == {i \in D : Cardinality({j \in D : j < i}) < k}
            IN  \A i \in D :
                    guess_result[i][2] = IF i \in smallest THEN IncorrectPosition ELSE NotFound

\* a result in which the tie-break decides: some target character has fewer
\* unmatched target copies than unmatched guess copies, at least one
C1_Witness ==
    /\ Computed
    /\ \E c \in {target_word[i] : i \in DOMAIN target_word} :
           LET g == last.word
               D == {i \in DOMAIN g : g[i] = c /\ target_word[i] # c}
               exact == {i \in DOMAIN g : g[i] = c /\ target_word[i] = c}
               extra == Count(target_word, c) - Cardinality(exact)
           IN  /\ 0 < extra
               /\ extra < Cardinality(D)
               /\ \E i, j \in D : /\ i < j
                                  /\ guess_result[i][2] = IncorrectPosition
                                  /\ guess_result[j][2] = NotFound

\* C2: no guess_word call fails with the keyboard view's "invalid state ...
\* incompatible with new state" panic.
C2_NoInconsistencyFailure == last.outcome # PanicInvalidState

\* C3: position i of the result is CorrectPosition iff guess[i] = target[i].
C3_ExactMatches ==
    Computed =>
        \A i \in DOMAIN guess_result :
            (guess_result[i][2] = CorrectPosition) <=> (last.word[i] = target_word[i])

\* a result with an exact match, and with a position that holds a character
\* of the target without being an exact match
C3_Witness ==
    /\ Computed
    /\ \E i \in DOMAIN guess_result : guess_result[i][2] = CorrectPosition
    /\ \E i \in DOMAIN guess_result :
           /\ last.word[i] # target_word[i]
           /\ Count(target_word, last.word[i]) > 0
           /\ guess_result[i][2] = IncorrectPosition

\* C4: character-count conservation.  For every character c the number of
\* result entries for c that are CorrectPosition or IncorrectPosition is at
\* most min(count of c in the guess, count of c in the target); a character
\* that is not in the target is NotFound at every guess position.
C4_CountConservation ==
    Computed =>
        \A c \in Alphabet :
            LET marked == {i \in DOMAIN guess_result :
                              /\ guess_result[i][1] = c
                              /\ guess_result[i][2] \in {CorrectPosition, IncorrectPosition}}
            IN  /\ Cardinality(marked) <= Count(last.word, c)
                /\ Cardinality(marked) <= Count(target_word, c)
                /\ Count(target_word, c) = 0 =>
                       \A i \in DOMAIN last.word :
                           last.word[i] = c => guess_result[i] = <<c, NotFound>>

\* a guess holding more copies of a target character than the target does,
\* all target copies being accounted for
C4_Witness ==
    /\ Computed
    /\ \E c \in Alphabet :
           /\ Count(target_word, c) > 0
           /\ Count(last.word, c) > Count(target_word, c)
           /\ Cardinality({i \in DOMAIN guess_result :
                              /\ guess_result[i][1] = c
                              /\ guess_result[i][2] \in {CorrectPosition, IncorrectPosition}})
                  = Count(target_word, c)

\* C5: the result computed by guess_word for a dictionary-valid guess is
\* is_correct() (all CorrectPosition) iff the guess equals the target.
C5_CorrectIffTarget ==
    Computed => (is_correct(guess_result) <=> last.word = target_word)

\* guess_word returned the result of guessing the target itself
C5_Witness ==
    /\ last.op = "guess_word"
    /\ last.outcome = ReturnedSome
    /\ last.word = target_word
    /\ is_correct(guess_result)

\* C6: Win and Lose are absorbing.  Every guess_word call made in Win or
\* Lose panics with "no more guesses allowed" and leaves state,
\* guess_results and keyboard_view as they were.
C6_TerminalAbsorbing ==
    [][(phase = "game" /\ state \in {Win, Lose}) =>
           /\ last'.outcome = PanicNoMoreGuesses
           /\ state' = state
           /\ guess_results' = guess_results
           /\ keyboard_view' = keyboard_view]_vars

\* a call with a dictionary word was refused after the game was won
C6_Witness ==
    /\ state = Win
    /\ last.op = "guess_word"
    /\ last.outcome = PanicNoMoreGuesses
    /\ last.word \in wordset

\* C7: a guess_word call on a Playing session with a word that is not in
\* the dictionary returns None and changes nothing.
C7_RejectedGuessNoChange ==
    [][(phase = "game" /\ state = Playing /\ last'.word \notin wordset) =>
           /\ last'.outcome = ReturnedNone
           /\ state' = state
           /\ guess_results' = guess_results
           /\ keyboard_view' = keyboard_view]_vars

\* C8: an accepted guess whose result is a win sets the state to Win, also
\* when it is attempt number max_guesses.
C8_WinHasPriority ==
    [][(AcceptedStep /\ is_correct(guess_result')) => state' = Win]_vars

\* the game was won on the last allowed attempt, after a miss
C8_Witness ==
    /\ state = Win
    /\ last.outcome = ReturnedSome
    /\ Len(guess_results) = max_guesses
    /\ max_guesses > 1

\* C9: after an accepted guess that is not a win, the state is Lose iff the
\* number of accepted guesses equals max_guesses, and Playing otherwise.
C9_LoseIffExhausted ==
    [][(AcceptedStep /\ ~is_correct(guess_result')) =>
           /\ (state' = Lose) <=> (Len(guess_results') = max_guesses)
           /\ (state' # Lose) => (state' = Playing)]_vars

\* the game was lost by a miss on the last allowed attempt, after an earlier
\* miss that left it Playing
C9_Witness ==
    /\ state = Lose
    /\ last.outcome = ReturnedSome
    /\ ~is_correct(guess_result)
    /\ Len(guess_results) = max_guesses
    /\ max_guesses > 1

\* C10: whenever the number of accepted guesses equals max_guesses the
\* state is Win or Lose, in every reachable state of a session.
C10_ExhaustedIsTerminal ==
    (phase = "game" /\ Len(guess_results) = max_guesses) => state \in {Win, Lose}

\* a step taken by a record_guess call on the keyboard view on its own; the
\* char guess passed is last'.word
RecordStep == phase = "keyboard" /\ guess_result' = Append(guess_result, last'.word)

\* C11: the keyboard view is monotonic.  Once a character has a recorded
\* state, every record_guess call that returns normally leaves its state
\* greater than or equal to the state before the call, under
\* NotFound < IncorrectPosition < CorrectPosition.
C11_KeyboardMonotonic ==
    [][(RecordStep /\ last'.outcome = Returned) =>
           \A c \in DOMAIN keyboard_view :
               /\ c \in DOMAIN keyboard_view'
               /\ keyboard_view'[c] >= keyboard_view[c]]_vars

\* an IncorrectPosition recorded for a character that stays CorrectPosition
C11_Witness ==
    /\ phase = "keyboard"
    /\ last.op = "record_guess"
    /\ last.outcome = Returned
    /\ last.word[2] = IncorrectPosition
    /\ \E i \in 1..(Len(guess_result) - 1) :
           guess_result[i] = <<last.word[1], CorrectPosition>>
    /\ keyboard_view[last.word[1]] = CorrectPosition

\* C12: record_guess panics whenever the character's recorded state is
\* NotFound and the new state is IncorrectPosition or CorrectPosition.
C12_FoundAfterNotFoundFails ==
    [][(/\ RecordStep
        /\ last'.word[1] \in DOMAIN keyboard_view
        /\ keyboard_view[last'.word[1]] = NotFound
        /\ last'.word[2] \in {IncorrectPosition, CorrectPosition}) =>
           /\ last'.outcome = PanicInvalidState
           /\ keyboard_view' = keyboard_view]_vars

\* a CorrectPosition refused for a character recorded as NotFound
C12_Witness ==
    /\ phase = "keyboard"
    /\ last.op = "record_guess"
    /\ last.outcome = PanicInvalidState
    /\ last.word[2] = CorrectPosition
    /\ keyboard_view[last.word[1]] = NotFound

\* C13 as claimed: record_guess panics whenever the character's recorded
\* state is IncorrectPosition or CorrectPosition and the new state is
\* NotFound.
C13_NotFoundAfterFoundFails ==
    [][(/\ RecordStep
        /\ last'.word[1] \in DOMAIN keyboard_view
        /\ keyboard_view[last'.word[1]] \in {IncorrectPosition, CorrectPosition}
        /\ last'.word[2] = NotFound) =>
           last'.outcome = PanicInvalidState]_vars

\* C13 as amended: when the character's recorded state is IncorrectPosition
\* or CorrectPosition and the new state is NotFound, record_guess returns
\* normally and keeps the recorded state.
C13_NotFoundAfterFoundKept ==
    [][(/\ RecordStep
        /\ last'.word[1] \in DOMAIN keyboard_view
        /\ keyboard_view[last'.word[1]] \in {IncorrectPosition, CorrectPosition}
        /\ last'.word[2] = NotFound) =>
           /\ last'.outcome = Returned
           /\ keyboard_view' = keyboard_view]_vars

\* a NotFound accepted for a character recorded as IncorrectPosition before
C13_Witness ==
    /\ phase = "keyboard"
    /\ last.op = "record_guess"
    /\ last.outcome = Returned
    /\ last.word[2] = NotFound
    /\ \E i \in 1..(Len(guess_result) - 1) :
           guess_result[i] = <<last.word[1], IncorrectPosition>>
    /\ keyboard_view[last.word[1]] = IncorrectPosition

\* C14: the merge rule.  record_guess(c, s) records s for a character with no
\* recorded state, and max(prev, s) for a character with recorded state prev
\* when prev and s are both NotFound or both not NotFound; it changes the
\* state of no other character; and get(c) is None exactly for the
\* characters that were never passed to record_guess.
C14_MergeRule ==
    /\ [](phase = "keyboard" =>
             \A c \in Alphabet :
                 (get(keyboard_view, c) = 0) <=>
                     (\A i \in DOMAIN guess_result : guess_result[i][1] # c))
    /\ [][RecordStep =>
             LET c == last'.word[1]
                 s == last'.word[2]
                 prev == get(keyboard_view, c)
             IN  /\ prev = 0 =>
                        /\ last'.outcome = Returned
                        /\ get(keyboard_view', c) = s
                 /\ (prev # 0 /\ ((prev = NotFound) <=> (s = NotFound))) =>
                        /\ last'.outcome = Returned
                        /\ get(keyboard_view', c) = IF prev >= s THEN prev ELSE s
                 /\ \A d \in Alphabet \ {c} :
                        get(keyboard_view', d) = get(keyboard_view, d)]_vars

\* a CorrectPosition merged onto an IncorrectPosition while another character
\* keeps its state
C14_Witness ==
    /\ phase = "keyboard"
    /\ last.op = "record_guess"
    /\ last.outcome = Returned
    /\ last.word[2] = CorrectPosition
    /\ \E i \in 1..(Len(guess_result) - 1) :
           guess_result[i] = <<last.word[1], IncorrectPosition>>
    /\ keyboard_view[last.word[1]] = CorrectPosition
    /\ \E d \in Alphabet : get(keyboard_view, d) # 0 /\ d # last.word[1]

\* C15: the result of compute_guess_result is the same whatever the order in
\* which the distinct characters of the target are processed.
C15_OrderIndependent ==
    Computed =>
        \A order \in Orders(DOMAIN target_char_indexes) :
            compute_guess_result(last.word, order) = guess_result

\* a result in which two different characters of the target were marked
C15_Witness ==
    /\ Computed
    /\ \E i, j \in DOMAIN guess_result :
           /\ guess_result[i][1] # guess_result[j][1]
           /\ guess_result[i][2] # NotFound
           /\ guess_result[j][2] # NotFound

\* standard Wordle scoring, second pass: the guess scanned from position i on,
\* remaining[c] being the number of copies of c in the target not yet used
RECURSIVE StandardScan(_, _, _, _, _)
StandardScan(target, guess, i, remaining, acc) ==
    IF i > Len(guess) THEN acc
    ELSE LET c == guess[i]
         IN  IF target[i] = c
             THEN StandardScan(target, guess, i + 1, remaining,
                               Append(acc, <<c, CorrectPosition>>))
             ELSE IF remaining[c] > 0
             THEN StandardScan(target, guess, i + 1, [remaining EXCEPT ![c] = @ - 1],
                               Append(acc, <<c, IncorrectPosition>>))
             ELSE StandardScan(target, guess, i + 1, remaining,
                               Append(acc, <<c, NotFound>>))

\* standard Wordle scoring: the exact matches use up their target letters
\* first, then the scan
StandardScore(target, guess) ==
    LET unmatched == {i \in DOMAIN target : guess[i] # target[i]}
        remaining == [c \in Alphabet |-> Cardinality({i \in unmatched : target[i] = c})]
    IN  StandardScan(target, guess, 1, remaining, <<>>)

\* C16: compute_guess_result gives the per-position states of standard
\* Wordle scoring (the two-pass reference algorithm).
C16_StandardScoring ==
    Computed => guess_result = StandardScore(target_word, last.word)

\* a result with a character of the target marked NotFound because its
\* copies in the target are used up, next to an IncorrectPosition
C16_Witness ==
    /\ Computed
    /\ \E i \in DOMAIN guess_result :
           /\ guess_result[i][2] = NotFound
           /\ Count(target_word, guess_result[i][1]) > 0
    /\ \E i \in DOMAIN guess_result : guess_result[i][2] = IncorrectPosition

\* C17: a result returned by guess_word has as many entries as the target
\* has characters, entry i carries the character guess[i], and every state is
\* NotFound, IncorrectPosition or CorrectPosition.
C17_ResultShape ==
    (last.op = "guess_word" /\ last.outcome = ReturnedSome) =>
        /\ DOMAIN guess_result = 1..Len(target_word)
        /\ Len(guess_result) = Len(last.word)
        /\ \A i \in DOMAIN guess_result :
               /\ guess_result[i][1] = last.word[i]
               /\ guess_result[i][2] \in CharStates

\* a returned result of two entries for a guess that differs from the target
\* and holds a character that is not in the target
C17_Witness ==
    /\ last.op = "guess_word"
    /\ last.outcome = ReturnedSome
    /\ Len(guess_result) = 2
    /\ last.word # target_word
    /\ \E i \in DOMAIN guess_result : guess_result[i][2] = NotFound

\* C18: Game::new panics with "target word not present in dictionary" and
\* creates no session whenever the target is not a member of the dictionary,
\* which includes every target whose length differs from word_length; when
\* the target is a member the session starts Playing with empty
\* guess_results and an empty keyboard view.
C18_GameNew ==
    [][(phase = "dict" /\ last'.op = "Game::new") =>
           LET target == last'.word
           IN  IF target \notin wordset \/ Len(target) # word_length
               THEN /\ last'.outcome = PanicTargetNotInDict
                    /\ phase' # "game"
                    /\ state' = NoGame
                    /\ UNCHANGED gameVars
               ELSE /\ last'.outcome = Returned
                    /\ phase' = "game"
                    /\ target_word' = target
                    /\ state' = Playing
                    /\ guess_results' = <<>>
                    /\ keyboard_view' = EmptyMap]_vars

\* Game::new refused a target longer than the words of the dictionary
C18_Witness ==
    /\ last.op = "Game::new"
    /\ last.outcome = PanicTargetNotInDict
    /\ last.word = LongWord
    /\ phase = "start"
    /\ state = NoGame

\* C19: every member of the dictionary has exactly word_length characters,
\* and an add of a word of another length panics with the length-mismatch
\* error and leaves the set unchanged.
C19_DictionaryLength ==
    /\ [](phase \in {"dict", "game"} => \A w \in wordset : Len(w) = word_length)
    /\ [][(phase = "dict" /\ last'.op = "add_word" /\ Len(last'.word) # word_length) =>
             /\ last'.outcome = PanicIncorrectLength
             /\ wordset' = wordset]_vars

\* an add of a shorter word was refused by a dictionary that holds two words
C19_Witness ==
    /\ phase = "dict"
    /\ last.op = "add_word"
    /\ last.outcome = PanicIncorrectLength
    /\ Len(last.word) < word_length
    /\ len(wordset) = 2

\* C20: the dictionary is a set.  It is empty when constructed, and each
\* successful add of w makes contains true of w and of what it was true of
\* before, and of nothing else; len grows by one when w was absent and stays
\* when w was present (so contains(w) holds iff w was added, and len is the
\* number of distinct words added).
C20_SetSemantics ==
    /\ []((phase = "dict" /\ last.op = "Dictionary::new") => len(wordset) = 0)
    /\ [][(phase = "dict" /\ last'.op = "add_word" /\ last'.outcome = Returned) =>
             LET w == last'.word
             IN  /\ \A x \in InputWords :
                        contains(wordset', x) <=> (contains(wordset, x) \/ x = w)
                 /\ len(wordset') = len(wordset) + (IF contains(wordset, w) THEN 0 ELSE 1)]_vars

\* two distinct words were added, the last add succeeding
C20_Witness ==
    /\ phase = "dict"
    /\ last.op = "add_word"
    /\ last.outcome = Returned
    /\ contains(wordset, last.word)
    /\ len(wordset) = 2

\* the states of the entries for char c over all results of guess_results
HistoryStates(c) ==
    UNION {{guess_results[k][i][2] : i \in {j \in DOMAIN guess_results[k] : guess_results[k][j][1] = c}} :
           k \in DOMAIN guess_results}

\* the greatest CharState of a non-empty set (NotFound < IncorrectPosition < CorrectPosition)
MaxState(S) == CHOOSE m \in S : \A x \in S : x <= m

\* C21: while no guess_word call of the session has failed, a character has
\* a keyboard state if and only if it occurs in some accepted guess recorded
\* in guess_results; characters of rejected guesses only, or of no guess,
\* have none.
C21_KeyboardCoversHistory ==
    (phase = "game" /\ ~failed) =>
        \A c \in Alphabet : (get(keyboard_view, c) # 0) <=> (HistoryStates(c) # {})

\* after an accepted guess, a rejected guess holding a character the
\* keyboard view has no state for
C21_Witness ==
    /\ phase = "game"
    /\ ~failed
    /\ guess_results # <<>>
    /\ last.op = "guess_word"
    /\ last.outcome = ReturnedNone
    /\ \E i \in DOMAIN last.word : get(keyboard_view, last.word[i]) = 0

\* C22: Dictionary::new(wl) panics with 'word length must be positive' and
\* builds nothing when wl = 0, and returns a dictionary of word length wl
\* with an empty word set for every wl >= 1.
C22_DictionaryNew ==
    [][(phase = "start" /\ last'.op = "Dictionary::new") =>
           LET wl == last'.word[1]
           IN  IF wl = 0
               THEN /\ last'.outcome = PanicWordLength
                    /\ phase' = "start"
                    /\ UNCHANGED dictVars
               ELSE /\ last'.outcome = Returned
                    /\ phase' = "dict"
                    /\ word_length' = wl
                    /\ len(wordset') = 0]_vars

\* Dictionary::new(0) panicked and no dictionary exists
C22_Witness ==
    /\ phase = "start"
    /\ last.op = "Dictionary::new"
    /\ last.word = <<0>>
    /\ last.outcome = PanicWordLength

\* C23: a guess_word call that returns no GuessResult (None or a panic,
\* the panic inside the keyboard merge included) leaves guess_results,
\* keyboard_view and state as they were, so every character with a keyboard
\* state occurs in guess_results.
C23_FailedCallLeavesSessionUntouched ==
    /\ [][(phase = "game" /\ last'.outcome # ReturnedSome) =>
             /\ guess_results' = guess_results
             /\ keyboard_view' = keyboard_view
             /\ state' = state]_vars
    /\ [](phase = "game" => \A c \in DOMAIN keyboard_view : HistoryStates(c) # {})

\* ------------------------------------------------------------------------
\* The session under the caller the termination claim assumes: while the
\* session is Playing, words of the dictionary keep being submitted, and a
\* guess that can be accepted again and again is eventually accepted.
ValidGuess == state = Playing /\ \E word \in wordset : GuessWord(word)

AcceptedGuess == ValidGuess /\ last'.outcome = ReturnedSome

SpecFair == Init /\ [][Next]_vars /\ WF_vars(ValidGuess) /\ SF_vars(AcceptedGuess)

\* C24: a session with max_guesses >= 1 to which dictionary words keep being
\* submitted while it is Playing eventually reaches Win or Lose, and no call
\* fails while it is Playing.
C24_EventualTermination ==
    /\ ((phase = "game" /\ max_guesses >= 1) ~> (state \in {Win, Lose}))
    /\ []((phase = "game" /\ max_guesses >= 1 /\ state = Playing) => ~failed)

\* C25: while no call has failed, the keyboard state of every character
\* occurring in guess_results is the maximum of the states of all its
\* entries over all results.
C25_KeyboardIsAggregate ==
    (phase = "game" /\ ~failed) =>
        \A c \in Alphabet :
            HistoryStates(c) # {} => get(keyboard_view, c) = MaxState(HistoryStates(c))

\* a character whose entries in the history carry two different states
C25_Witness ==
    /\ phase = "game"
    /\ ~failed
    /\ \E c \in Alphabet : Cardinality(HistoryStates(c)) >= 2

\* C26: while no call has failed, a character with a keyboard state is
\* NotFound iff it does not occur in the target word, and CorrectPosition
\* iff some accepted guess held it at a position where the target holds it.
C26_KeyboardAgreesWithTarget ==
    (phase = "game" /\ ~failed) =>
        \A c \in DOMAIN keyboard_view :
            /\ keyboard_view[c] = NotFound <=> Count(target_word, c) = 0
            /\ keyboard_view[c] = CorrectPosition <=>
                   \E k \in DOMAIN guess_results : \E i \in DOMAIN guess_results[k] :
                       guess_results[k][i][1] = c /\ target_word[i] = c

\* a session still Playing whose keyboard view holds a character absent
\* from the target and a character guessed at its place
C26_Witness ==
    /\ phase = "game"
    /\ ~failed
    /\ state = Playing
    /\ \E c, d \in DOMAIN keyboard_view :
           keyboard_view[c] = NotFound /\ keyboard_view[d] = CorrectPosition

\* C27: guess_results never holds more than max_guesses entries; a
\* guess_word call that returns Some appends the returned result as one
\* entry and keeps the earlier entries, every other call keeps guess_results
\* (so its length is the number of calls that returned Some); and the state
\* is Win iff the last entry of guess_results is all CorrectPosition.
C27_HistoryBookkeeping ==
    /\ [](phase = "game" =>
             /\ Len(guess_results) <= max_guesses
             /\ state = Win <=>
                    (guess_results # <<>> /\ is_correct(guess_results[Len(guess_results)])))
    /\ [][phase = "game" =>
             IF last'.outcome = ReturnedSome
             THEN guess_results' = Append(guess_results, guess_result')
             ELSE guess_results' = guess_results]_vars

\* a second accepted guess won the session after a first that did not
C27_Witness ==
    /\ phase = "game"
    /\ last.outcome = ReturnedSome
    /\ Len(guess_results) = 2
    /\ guess_results[2] = guess_result
    /\ ~is_correct(guess_results[1])
    /\ state = Win

====
